---- MODULE Spec2Model ----
(***************************************************************************)
(* Model of ComplianceMinimization (compliance_minimization.py): the        *)
(* density filter built by the constructor, the assemble / factorize /      *)
(* solve pipeline of compliance() with the cache it leaves behind, the      *)
(* gradient evaluator that reads that cache, and the optimizer-facing       *)
(* evalObjCon / evalObjConGradient.                                         *)
(*                                                                          *)
(* Floating-point numbers are modelled by exact rationals <<n, d>>.  Node  *)
(* coordinates are integers chosen so that every distance is an integer.    *)
(* The compiled plane_stress kernels are not part of the Python source;     *)
(* they are modelled from their documented contract (a lumped, diagonal     *)
(* stiffness with power-law penalization).                                   *)
(***************************************************************************)
EXTENDS Integers, Sequences, FiniteSets, TLC

VARIABLES conn, vars, X, force, qval, C,      \* constructor data (lines 23-28)
          nvars, nnodes,                      \* lines 31-32
          rowp, cols, Kvals,                  \* sparsity pattern and values
          total_mass, F,                      \* lines 57, 84
          Kmat, LU, u,                        \* cache written by compliance()
          r0,                                 \* the constructor's r0 argument
          ret,                                \* outcome of the latest call
          called                              \* history of compliance() calls

state == <<conn, vars, X, force, qval, C, nvars, nnodes, rowp, cols, Kvals,
           total_mass, F, Kmat, LU, u, r0, ret, called>>

-----------------------------------------------------------------------------
(* Bounds of the model *)

\* radii r0 range over -1 .. MaxR0
MaxR0 == 5

-----------------------------------------------------------------------------
(* Exact rational arithmetic standing for the floats of numpy *)

Abs(a) == IF a < 0 THEN -a ELSE a

RECURSIVE GCD(_, _)
GCD(a, b) == IF b = 0 THEN a ELSE GCD(b, a % b)

\* the rational n/d in lowest terms with a positive denominator
Norm(n, d) ==
    LET g == GCD(Abs(n), Abs(d))
        s == IF d < 0 THEN -1 ELSE 1
    IN  <<(s * n) \div g, (s * d) \div g>>

Zero == <<0, 1>>
One == <<1, 1>>
RInt(k) == <<k, 1>>
RNeg(a) == <<-a[1], a[2]>>
\* sums over the least common denominator, products after cross-cancelling,
\* so that no intermediate value is larger than the result requires
RAdd(a, b) ==
    LET g == GCD(a[2], b[2])
    IN  Norm(a[1] * (b[2] \div g) + b[1] * (a[2] \div g), (a[2] \div g) * b[2])
RSub(a, b) == RAdd(a, RNeg(b))
RMul(a, b) ==
    LET g == GCD(Abs(a[1]), b[2])
        h == GCD(Abs(b[1]), a[2])
    IN  Norm((a[1] \div g) * (b[1] \div h), (a[2] \div h) * (b[2] \div g))
RDiv(a, b) == RMul(a, IF b[1] < 0 THEN <<-b[2], -b[1]>> ELSE <<b[2], b[1]>>)
RLess(a, b) == a[1] * b[2] < b[1] * a[2]

RECURSIVE RPow(_, _)
RPow(a, k) == IF k = 0 THEN One ELSE RMul(a, RPow(a, k - 1))

\* sum of f[i] over the finite set S
RECURSIVE RSum(_, _)
RSum(f, S) ==
    IF S = {} THEN Zero
    ELSE LET i == CHOOSE j \in S : TRUE
         IN  RAdd(f[i], RSum(f, S \ {i}))

\* np.sum of a list
SeqSum(w) == RSum(w, DOMAIN w)

\* np.dot of two vectors over the same index set
Dot(a, b) == RSum([i \in DOMAIN a |-> RMul(a[i], b[i])], DOMAIN a)

\* np.sqrt on the squared distances of the model's node sets
Sqrt(n) == CHOOSE r \in 0..n : r * r = n

\* the elements of S as an ascending list
RECURSIVE SortedSeq(_)
SortedSeq(S) ==
    IF S = {} THEN <<>>
    ELSE LET m == CHOOSE a \in S : \A b \in S : a <= b
         IN  <<m>> \o SortedSeq(S \ {m})

Max(S) == CHOOSE a \in S : \A b \in S : b <= a

\* an attribute that has not been assigned, and one that has
Absent == <<>>
Some(v) == <<v>>
Value(a) == a[1]

-----------------------------------------------------------------------------
(* Constructor inputs *)

\* a three-node element with corners (0,0), (3,0), (3,4): sides 3, 4, 5
TriX == [n \in 0..2 |-> CASE n = 0 -> <<0, 0>> [] n = 1 -> <<3, 0>> [] n = 2 -> <<3, 4>>]
\* the same element with the short sides swapped: corners (0,0), (4,0), (4,3)
TriX2 == [n \in 0..2 |-> CASE n = 0 -> <<0, 0>> [] n = 1 -> <<4, 0>> [] n = 2 -> <<4, 3>>]
TriConn == [e \in 0..0 |-> <<0, 1, 2>>]

\* nodes 0 and 1 clamped, unit load on the last degree of freedom
MeshA == [conn |-> TriConn, X |-> TriX,
          vars |-> [n \in 0..2 |-> IF n = 2 THEN <<0, 1>> ELSE <<-1, -1>>],
          force |-> [d \in 0..1 |-> IF d = 1 THEN One ELSE Zero],
          qval |-> 2, C |-> RInt(2)]

\* node 0 clamped, node 1 on a roller, loads on two degrees of freedom
MeshB == [conn |-> TriConn, X |-> TriX2,
          vars |-> [n \in 0..2 |-> CASE n = 0 -> <<-1, -1>> [] n = 1 -> <<-1, 0>> [] n = 2 -> <<1, 2>>],
          force |-> [d \in 0..2 |-> IF d = 1 THEN Zero ELSE One],
          qval |-> 1, C |-> One]

Meshes == {MeshA, MeshB}
R0Values == (-1)..MaxR0

\* the design-variable vectors the optimizer passes: the all-void vector, the
\* initial guess, full density, and full density with node 1 at half density
\* or node 2 void
XVectors ==
    {[n \in 0..2 |-> a] : a \in {Zero, Norm(95, 100), One}}
        \cup {[n \in 0..2 |-> IF n = 1 THEN Norm(1, 2) ELSE One],
              [n \in 0..2 |-> IF n = 2 THEN Zero ELSE One]}

-----------------------------------------------------------------------------
(* The plane_stress kernels, after their documented contract *)

\* the nodes of element e
ElemNodes(cn, e) == {cn[e][k] : k \in DOMAIN cn[e]}

\* the elements that node n belongs to
NodeElems(cn, n) == {e \in DOMAIN cn : n \in ElemNodes(cn, e)}

\* the area of element e (shoelace formula over its corners)
ElemArea(cn, Xs, e) ==
    LET m == Len(cn[e])
        P(k) == Xs[cn[e][k]]
        Q(k) == Xs[cn[e][(k % m) + 1]]
        twice == RSum([k \in 1..m |-> RInt(P(k)[1] * Q(k)[2] - Q(k)[1] * P(k)[2])], 1..m)
    IN  Norm(Abs(twice[1]), 2)

\* the share of the area of the elements around node n that is lumped at n
NodeArea(cn, Xs, n) ==
    RSum([e \in NodeElems(cn, n) |-> RDiv(ElemArea(cn, Xs, e), RInt(Len(cn[e])))],
         NodeElems(cn, n))

\* computemass: the mass of the nodal density rho, linear in rho
computemass(cn, Xs, rho) ==
    RSum([n \in DOMAIN rho |-> RMul(NodeArea(cn, Xs, n), rho[n])], DOMAIN rho)

\* computemassderiv: the derivative of the mass, one entry per entry of dmdx
computemassderiv(cn, Xs, dmdx) ==
    [n \in DOMAIN dmdx |-> NodeArea(cn, Xs, n)]

\* the free degrees of freedom of node n (-1 marks a fixed one)
NodeDofs(vs, n) == {vs[n][k] : k \in DOMAIN vs[n]} \ {-1}

\* the node that owns degree of freedom d
DofNode(vs, d) == CHOOSE n \in DOMAIN vs : d \in NodeDofs(vs, n)

\* the degrees of freedom coupled to d through some element
DofNbrs(cn, vs, d) ==
    UNION {NodeDofs(vs, m) : m \in UNION {ElemNodes(cn, e) : e \in NodeElems(cn, DofNode(vs, d))}}

\* computenzpattern: the compressed-row pattern; ncols is the length that the
\* cols buffer must have
computenzpattern(cn, vs, nv) ==
    LET row(i) == SortedSeq(DofNbrs(cn, vs, i))
        rp == [i \in 0..nv |-> RSum([k \in 0..(i - 1) |-> RInt(Len(row(k)))], 0..(i - 1))[1]]
        owner(k) == CHOOSE i \in 0..(nv - 1) : rp[i] <= k /\ k < rp[i + 1]
    IN  [ncols |-> rp[nv], rowp |-> rp,
         cols |-> [k \in 0..(rp[nv] - 1) |-> row(owner(k))[k - rp[owner(k)] + 1]]]

\* the row that entry k of the pattern belongs to
RowOf(rp, k) == CHOOSE i \in DOMAIN rp : rp[i] <= k /\ k < rp[i + 1]

\* computekmat: the values of the stiffness matrix on the pattern (rp, cl) for
\* the filtered density rho, penalized with exponent q
computekmat(cn, vs, Xs, q, Cm, rho, rp, cl) ==
    [k \in DOMAIN cl |->
        IF cl[k] = RowOf(rp, k)
        THEN LET n == DofNode(vs, cl[k])
             IN  RMul(RMul(Cm, RInt(Cardinality(NodeElems(cn, n)))), RPow(rho[n], q))
        ELSE Zero]

\* computekmatderiv: psi^T (dK/drho_n) uu for every node n
computekmatderiv(cn, vs, Xs, q, Cm, rho, psi, uu) ==
    [n \in DOMAIN rho |->
        RSum([d \in NodeDofs(vs, n) |->
                 RMul(RMul(RMul(Cm, RInt(Cardinality(NodeElems(cn, n)) * q)),
                           RPow(rho[n], q - 1)),
                      RMul(psi[d], uu[d]))],
             NodeDofs(vs, n))]

-----------------------------------------------------------------------------
(* The constructor *)

\* the distance between nodes i and j (line 71)
Dist(Xs, i, j) ==
    LET dx == Xs[i][1] - Xs[j][1]
        dy == Xs[i][2] - Xs[j][2]
    IN  Sqrt(dx * dx + dy * dy)

\* tree.query_ball_tree(tree, r): for every node the nodes within distance r,
\* the boundary included
query_ball_tree(Xs, r) ==
    [i \in DOMAIN Xs |-> SortedSeq({j \in DOMAIN Xs : Dist(Xs, i, j) <= r})]

\* variant of FilterWeights: every node inside the radius gets the same weight
FilterWeights_Uniform(Xs, r, i, rlist) ==
    LET wv == SelectSeq(rlist, LAMBDA j : Dist(Xs, i, j) < r)
    IN  [wvars |-> wv, w |-> [k \in 1..Len(wv) |-> One]]

\* the inner loop of the filter construction: the nodes of rlist strictly
\* inside the radius and their linear weights
FilterWeights(Xs, r, i, rlist) ==
    LET wv == SelectSeq(rlist, LAMBDA j : Dist(Xs, i, j) < r)
    IN  [wvars |-> wv,
         w |-> [k \in 1..Len(wv) |-> Norm(r - Dist(Xs, i, wv[k]), r)]]

\* variant of NormalizeWeights: the division by the sum is left out
NormalizeWeights_Skipped(w) == w

\* w /= np.sum(w); on an empty list there is nothing to divide
NormalizeWeights(w) ==
    IF w = <<>> THEN <<>>
    ELSE LET s == SeqSum(w) IN [k \in DOMAIN w |-> RDiv(w[k], s)]

\* F[i, wvars] = w on a zero row; with no weights the row stays empty
SetRow(Xs, wvars, w) ==
    [j \in DOMAIN Xs |->
        IF \E k \in DOMAIN wvars : wvars[k] = j
        THEN w[CHOOSE k \in DOMAIN wvars : wvars[k] = j]
        ELSE Zero]

\* the filter matrix, row by row
BuildFilter(Xs, r) ==
    LET result == query_ball_tree(Xs, r)
    IN  [i \in DOMAIN Xs |->
            LET fw == FilterWeights(Xs, r, i, result[i])
            IN  SetRow(Xs, fw.wvars, NormalizeWeights(fw.w))]

\* np.max(self.vars) + 1 and np.max(self.conn) + 1
CountVars(vs) == Max(UNION {{vs[n][k] : k \in DOMAIN vs[n]} : n \in DOMAIN vs}) + 1
CountNodes(cn) == Max(UNION {ElemNodes(cn, e) : e \in DOMAIN cn}) + 1

\* the state that __init__ leaves for mesh m and radius r
Constructor(m, r) ==
    LET nv == CountVars(m.vars)
        nn == CountNodes(m.conn)
        pat == computenzpattern(m.conn, m.vars, nv)
        cl == [k \in 0..(pat.rowp[nv] - 1) |-> pat.cols[k]]
    IN  /\ conn = m.conn
        /\ vars = m.vars
        /\ X = m.X
        /\ force = m.force
        /\ qval = m.qval
        /\ C = m.C
        /\ nvars = nv
        /\ nnodes = nn
        /\ rowp = pat.rowp
        /\ cols = cl
        /\ Kvals = [k \in DOMAIN cl |-> Zero]
        /\ total_mass = computemass(m.conn, m.X, [n \in 0..(nn - 1) |-> One])
        /\ F = BuildFilter(m.X, r)
        /\ Kmat = Absent
        /\ LU = Absent
        /\ u = Absent
        /\ r0 = r
        /\ ret = [op |-> "__init__", x |-> <<>>, outcome |-> "returned", val |-> <<>>]
        /\ called = [x |-> Absent, good |-> Absent, ok |-> TRUE]

Init == \E m \in Meshes, r \in R0Values : Constructor(m, r)

-----------------------------------------------------------------------------
(* Sparse linear algebra *)

\* self.F.dot(x)
FDot(Fm, x) == [i \in DOMAIN Fm |-> Dot(Fm[i], x)]

\* (self.F.transpose()).dot(v)
FTransposeDot(Fm, v) ==
    [j \in DOMAIN Fm |-> RSum([i \in DOMAIN Fm |-> RMul(Fm[i][j], v[i])], DOMAIN Fm)]

\* sparse.csr_matrix((vals, cl, rp), shape=(nv, nv)).tocsc(): the matrix whose
\* entry (i, j) is the sum of the values stored for column j in row i
csr_matrix(vals, cl, rp, nv) ==
    [i \in 0..(nv - 1) |->
        [j \in 0..(nv - 1) |->
            LET ks == {k \in rp[i]..(rp[i + 1] - 1) : cl[k] = j}
            IN  RSum(vals, ks)]]

\* the stiffness matrices of the model are diagonal: singular exactly when a
\* diagonal entry vanishes
IsSingular(K) == \E i \in DOMAIN K : K[i][i] = Zero

\* the solve operator returned by linalg.dsolve.factorized(K), applied to b
Solve(K, b) == [i \in DOMAIN K |-> RDiv(b[i], K[i][i])]

-----------------------------------------------------------------------------
(* The evaluators: what each call computes and what it writes *)

\* variant of massValue: the mass of the filtered density
massValue_Filtered(x) == computemass(conn, X, FDot(F, x))

\* mass (lines 88-95)
massValue(x) == computemass(conn, X, x)

\* mass_grad (lines 97-104)
massGradValue(x) == computemassderiv(conn, X, [n \in DOMAIN x |-> Zero])

\* variant of complianceResult: the factorization and the solution of the
\* first call are kept by the later ones
complianceResult_KeepsFirstSolve(x) ==
    LET rho == FDot(F, x)
        kv == computekmat(conn, vars, X, qval, C, rho, rowp, cols)
        km == csr_matrix(kv, cols, rowp, nvars)
    IN  IF IsSingular(km)
        THEN [Kvals |-> kv, Kmat |-> Some(km), LU |-> LU, u |-> u,
              outcome |-> "raised", exc |-> "RuntimeError", val |-> <<>>]
        ELSE LET sol == IF u = Absent THEN Solve(km, force) ELSE Value(u)
             IN  [Kvals |-> kv, Kmat |-> Some(km),
                  LU |-> IF LU = Absent THEN Some(km) ELSE LU, u |-> Some(sol),
                  outcome |-> "returned", exc |-> "", val |-> <<Dot(force, sol)>>]

\* variant of complianceResult: self.Kmat is assigned only after the
\* factorization has succeeded
complianceResult_KmatAfterFactor(x) ==
    LET rho == FDot(F, x)
        kv == computekmat(conn, vars, X, qval, C, rho, rowp, cols)
        km == csr_matrix(kv, cols, rowp, nvars)
    IN  IF IsSingular(km)
        THEN [Kvals |-> kv, Kmat |-> Kmat, LU |-> LU, u |-> u,
              outcome |-> "raised", exc |-> "RuntimeError", val |-> <<>>]
        ELSE LET sol == Solve(km, force)
             IN  [Kvals |-> kv, Kmat |-> Some(km), LU |-> Some(km), u |-> Some(sol),
                  outcome |-> "returned", exc |-> "", val |-> <<Dot(force, sol)>>]

\* the body of compliance (lines 106-129): the attributes it leaves and how it
\* ends.  factorized raises on a singular matrix, after Kvals and Kmat have
\* been written and before LU and u are
complianceResult(x) ==
    LET rho == FDot(F, x)
        kv == computekmat(conn, vars, X, qval, C, rho, rowp, cols)
        km == csr_matrix(kv, cols, rowp, nvars)
    IN  IF IsSingular(km)
        THEN [Kvals |-> kv, Kmat |-> Some(km), LU |-> LU, u |-> u,
              outcome |-> "raised", exc |-> "RuntimeError", val |-> <<>>]
        ELSE LET sol == Solve(km, force)
             IN  [Kvals |-> kv, Kmat |-> Some(km), LU |-> Some(km), u |-> Some(sol),
                  outcome |-> "returned", exc |-> "", val |-> <<Dot(force, sol)>>]

\* variant of complianceGradResult: the derivative is taken at the raw x
\* instead of the filtered density
complianceGradResult_Unfiltered(x) ==
    IF u = Absent
    THEN [outcome |-> "raised", exc |-> "AttributeError", val |-> <<>>]
    ELSE LET dKdrho == computekmatderiv(conn, vars, X, qval, C, x, Value(u), Value(u))
             dcdx == [n \in DOMAIN x |-> RNeg(FTransposeDot(F, dKdrho)[n])]
         IN  [outcome |-> "returned", exc |-> "", val |-> <<dcdx>>]

\* variant of complianceGradResult: a missing self.u is read as the zero
\* displacement
complianceGradResult_ZeroU(x) ==
    LET rho == FDot(F, x)
        uu == IF u = Absent THEN [d \in 0..(nvars - 1) |-> Zero] ELSE Value(u)
        dKdrho == computekmatderiv(conn, vars, X, qval, C, rho, uu, uu)
        dcdx == [n \in DOMAIN x |-> RNeg(FTransposeDot(F, dKdrho)[n])]
    IN  [outcome |-> "returned", exc |-> "", val |-> <<dcdx>>]

\* the body of compliance_grad (lines 131-160): reading self.u before any
\* compliance() call has assigned it raises AttributeError
complianceGradResult(x) ==
    LET rho == FDot(F, x)
    IN  IF u = Absent
        THEN [outcome |-> "raised", exc |-> "AttributeError", val |-> <<>>]
        ELSE LET dKdrho == computekmatderiv(conn, vars, X, qval, C, rho, Value(u), Value(u))
                 dcdx == [n \in DOMAIN x |-> RNeg(FTransposeDot(F, dKdrho)[n])]
             IN  [outcome |-> "returned", exc |-> "", val |-> <<dcdx>>]

\* the history after a compliance(x) call: x is the argument of the latest
\* call, good the argument of the latest call that returned, ok whether every
\* call so far returned
Called(x, returned) ==
    [x |-> Some(x),
     good |-> IF returned THEN Some(x) ELSE called.good,
     ok |-> called.ok /\ returned]

Frozen == UNCHANGED <<conn, vars, X, force, qval, C, nvars, nnodes, rowp, cols,
                      total_mass, F, r0>>
CacheUnchanged == UNCHANGED <<Kvals, Kmat, LU, u, called>>

\* variant of mass: the result is also stored in self.total_mass
mass_StoresTotal(x) ==
    /\ ret' = [op |-> "mass", x |-> x, outcome |-> "returned", exc |-> "",
               val |-> <<massValue(x)>>]
    /\ total_mass' = massValue(x)
    /\ UNCHANGED <<conn, vars, X, force, qval, C, nvars, nnodes, rowp, cols, F, r0>>
    /\ CacheUnchanged

mass(x) ==
    /\ ret' = [op |-> "mass", x |-> x, outcome |-> "returned", exc |-> "",
               val |-> <<massValue(x)>>]
    /\ Frozen /\ CacheUnchanged

mass_grad(x) ==
    /\ ret' = [op |-> "mass_grad", x |-> x, outcome |-> "returned", exc |-> "",
               val |-> <<massGradValue(x)>>]
    /\ Frozen /\ CacheUnchanged

compliance(x) ==
    \E c \in {complianceResult(x)} :
        /\ Kvals' = c.Kvals
        /\ Kmat' = c.Kmat
        /\ LU' = c.LU
        /\ u' = c.u
        /\ ret' = [op |-> "compliance", x |-> x, outcome |-> c.outcome, exc |-> c.exc,
                   val |-> c.val]
        /\ called' = Called(x, c.outcome = "returned")
        /\ Frozen

compliance_grad(x) ==
    \E g \in {complianceGradResult(x)} :
        /\ ret' = [op |-> "compliance_grad", x |-> x, outcome |-> g.outcome,
                   exc |-> g.exc, val |-> g.val]
        /\ Frozen /\ CacheUnchanged

\* lines 162-167: the arrays x, lb and ub are overwritten, whatever they held
getVarsAndBounds ==
    /\ ret' = [op |-> "getVarsAndBounds", x |-> Absent, outcome |-> "returned", exc |-> "",
               val |-> <<[n \in 0..(nnodes - 1) |-> Norm(95, 100)],
                         [n \in 0..(nnodes - 1) |-> Norm(1, 1000)],
                         [n \in 0..(nnodes - 1) |-> One]>>]
    /\ Frozen /\ CacheUnchanged

\* lines 169-178: an exception of compliance() leaves evalObjCon before its
\* return statement
evalObjCon(x) ==
    \E c \in {complianceResult(x)} :
    LET fail == 0
        con == <<RSub(RMul(Norm(4, 10), total_mass), massValue(x))>>
    IN  /\ Kvals' = c.Kvals
        /\ Kmat' = c.Kmat
        /\ LU' = c.LU
        /\ u' = c.u
        /\ ret' = [op |-> "evalObjCon", x |-> x, outcome |-> c.outcome, exc |-> c.exc,
                   val |-> IF c.outcome = "returned" THEN <<fail, c.val[1], con>> ELSE <<>>]
        /\ called' = Called(x, c.outcome = "returned")
        /\ Frozen

\* lines 180-189
evalObjConGradient(x) ==
    \E g \in {complianceGradResult(x)} :
    LET fail == 0
        A == <<[n \in DOMAIN x |-> RNeg(massGradValue(x)[n])]>>
    IN  /\ ret' = [op |-> "evalObjConGradient", x |-> x, outcome |-> g.outcome,
                   exc |-> g.exc,
                   val |-> IF g.outcome = "returned" THEN <<fail, g.val[1], A>> ELSE <<>>]
        /\ Frozen /\ CacheUnchanged

Next ==
    \/ \E x \in XVectors : mass(x)
    \/ \E x \in XVectors : mass_grad(x)
    \/ \E x \in XVectors : compliance(x)
    \/ \E x \in XVectors : compliance_grad(x)
    \/ getVarsAndBounds
    \/ \E x \in XVectors : evalObjCon(x)
    \/ \E x \in XVectors : evalObjConGradient(x)

Spec == Init /\ [][Next]_state

-----------------------------------------------------------------------------
(* What the cache should hold for a given design vector *)

\* the stiffness values and the matrix assembled for x
StiffnessValuesOf(x) == computekmat(conn, vars, X, qval, C, FDot(F, x), rowp, cols)
StiffnessOf(x) == csr_matrix(StiffnessValuesOf(x), cols, rowp, nvars)

\* the u that solves K(F*x) * u = force
DisplacementOf(x) == Solve(StiffnessOf(x), force)

\* the gradient of the compliance at x for the displacement uu
GradientFrom(x, uu) ==
    LET dKdrho == computekmatderiv(conn, vars, X, qval, C, FDot(F, x), uu, uu)
        back == FTransposeDot(F, dKdrho)
    IN  [n \in DOMAIN x |-> RNeg(back[n])]

GradientOps == {"compliance_grad", "evalObjConGradient"}

\* the gradient that the latest call returned
ReturnedGradient == IF ret.op = "compliance_grad" THEN ret.val[1] ELSE ret.val[2]

\* the latest compliance() call raised
LastFailed == called.x # Absent /\ called.x # called.good

-----------------------------------------------------------------------------
(* C1 *)

\* C1: while every compliance() call has succeeded, the cached Kvals, Kmat,
\* factorization and u are the ones of the x of the most recent compliance()
\* call, and a gradient requested for that same x is computed from the u that
\* solves K(F*x)*u = force for that x.
C1_CacheIsOfLatestX ==
    (called.ok /\ called.x # Absent) =>
        LET x == Value(called.x)
        IN  /\ Kvals = StiffnessValuesOf(x)
            /\ Kmat = Some(StiffnessOf(x))
            /\ LU = Some(StiffnessOf(x))
            /\ u = Some(DisplacementOf(x))
            /\ (ret.op \in GradientOps /\ ret.x = x) =>
                   /\ ret.outcome = "returned"
                   /\ ReturnedGradient = GradientFrom(x, DisplacementOf(x))

\* evalObjConGradient(x) has returned for the x of the latest compliance() call
C1_Witness ==
    /\ called.ok /\ called.x # Absent
    /\ ret.op = "evalObjConGradient" /\ ret.outcome = "returned"
    /\ ret.x = Value(called.x)

-----------------------------------------------------------------------------
(* C2 *)

\* C2: an evalObjCon(x) whose factorization or solve failed hands the caller
\* a non-zero fail flag.
C2_FailureSurfacedByFlag ==
    (ret.op = "evalObjCon" /\ IsSingular(StiffnessOf(ret.x))) =>
        /\ ret.outcome = "returned"
        /\ ret.val[1] # 0

-----------------------------------------------------------------------------
(* C3 *)

\* C3: a gradient requested for an x' other than the x of the latest
\* successful compliance() call returns normally (with fail = 0 from
\* evalObjConGradient), computed from the filtered density of x' and the
\* cached u of the old x, and the cache still holds what the compliance()
\* calls left in it.
C3_StaleGradientUnguarded ==
    (ret.op \in GradientOps /\ called.good # Absent /\ ret.x # Value(called.good)) =>
        /\ ret.outcome = "returned"
        /\ ret.op = "evalObjConGradient" => ret.val[1] = 0
        /\ ReturnedGradient = GradientFrom(ret.x, DisplacementOf(Value(called.good)))
        /\ u = Some(DisplacementOf(Value(called.good)))
        /\ LU = Some(StiffnessOf(Value(called.good)))
        /\ Kvals = StiffnessValuesOf(Value(called.x))
        /\ Kmat = Some(StiffnessOf(Value(called.x)))

\* a gradient was returned for an x' whose own displacement differs from the
\* cached one
C3_Witness ==
    /\ ret.op = "evalObjConGradient" /\ ret.outcome = "returned"
    /\ called.good # Absent /\ ret.x # Value(called.good)
    /\ ~IsSingular(StiffnessOf(ret.x))
    /\ DisplacementOf(ret.x) # Value(u)
    /\ ReturnedGradient # GradientFrom(ret.x, DisplacementOf(ret.x))

-----------------------------------------------------------------------------
(* C4 *)

RowSum(i) == RSum(F[i], DOMAIN F[i])

\* node i has no other node strictly inside the radius
Isolated(i) == \A j \in DOMAIN X : j # i => ~(Dist(X, i, j) < r0)

\* C4: for a radius r0 > 0 every row of the filter matrix has non-negative
\* entries that sum to 1, and the row of a node with no other node within r0
\* is the unit row.
C4_RowStochastic ==
    r0 > 0 =>
        \A i \in DOMAIN F :
            /\ \A j \in DOMAIN F[i] : ~RLess(F[i][j], Zero)
            /\ RowSum(i) = One
            /\ Isolated(i) => \A j \in DOMAIN F[i] : F[i][j] = IF j = i THEN One ELSE Zero

\* a filter with an isolated node and a node that has neighbours
C4_Witness ==
    /\ r0 > 0
    /\ \E i \in DOMAIN F : Isolated(i)
    /\ \E i \in DOMAIN F : ~Isolated(i)

-----------------------------------------------------------------------------
(* C5 *)

\* the weight (r0 - d(i,j)) / r0
LinearWeight(i, j) == Norm(r0 - Dist(X, i, j), r0)

\* C5: F[i,j] is zero whenever d(i,j) >= r0, the boundary d(i,j) = r0
\* included, and otherwise is (r0 - d(i,j))/r0 divided by the sum of those
\* weights over all k with d(i,k) < r0.
C5_FilterEntries ==
    \A i \in DOMAIN F : \A j \in DOMAIN F[i] :
        IF Dist(X, i, j) >= r0
        THEN F[i][j] = Zero
        ELSE LET inside == {k \in DOMAIN X : Dist(X, i, k) < r0}
             IN  F[i][j] = RDiv(LinearWeight(i, j),
                                RSum([k \in inside |-> LinearWeight(i, k)], inside))

\* a pair of nodes exactly r0 apart, which the range query returns, and a
\* pair of distinct nodes closer than r0
C5_Witness ==
    /\ \E i, j \in DOMAIN X :
          /\ Dist(X, i, j) = r0
          /\ \E k \in DOMAIN query_ball_tree(X, r0)[i] : query_ball_tree(X, r0)[i][k] = j
    /\ \E i, j \in DOMAIN X : i # j /\ Dist(X, i, j) < r0 /\ F[i][j] # Zero

-----------------------------------------------------------------------------
(* C6 *)

\* C6: a radius r0 <= 0 never yields a problem object whose filter matrix has
\* a row that is empty or does not sum to 1: the constructor ends in an error
\* (or clamps the radius).
C6_NonPositiveRadiusRejected ==
    r0 <= 0 => \A i \in DOMAIN F : RowSum(i) = One

-----------------------------------------------------------------------------
(* C7 *)

\* the mass of the all-ones density, as the constructor computes it
FullMass == computemass(conn, X, [n \in DOMAIN X |-> One])

\* C7: a successful evalObjCon(x) returns fail = 0, the compliance of the
\* filtered density F*x as objective, and exactly one constraint value,
\* 0.4*total_mass - mass(x), with the mass of the raw x and with total_mass
\* the mass of the all-ones density whatever calls came before.
C7_ObjectiveAndConstraint ==
    (ret.op = "evalObjCon" /\ ret.outcome = "returned") =>
        /\ ret.val[1] = 0
        /\ ret.val[2] = Dot(force, DisplacementOf(ret.x))
        /\ Len(ret.val[3]) = 1
        /\ ret.val[3][1] = RSub(RMul(Norm(2, 5), FullMass), computemass(conn, X, ret.x))

\* evalObjCon has returned for an x whose filtered density has another mass
\* than x itself, after an earlier failed evaluation
C7_Witness ==
    /\ ret.op = "evalObjCon" /\ ret.outcome = "returned"
    /\ ~called.ok
    /\ computemass(conn, X, FDot(F, ret.x)) # computemass(conn, X, ret.x)

-----------------------------------------------------------------------------
(* C8 *)

\* C8: no call changes the constructor data, the sparsity pattern, the filter
\* matrix or total_mass, and only compliance() (directly or through
\* evalObjCon) writes Kvals, Kmat, LU and u.
C8_FrameOfEvaluators ==
    [][/\ UNCHANGED <<rowp, cols, F, total_mass>>
       /\ UNCHANGED <<conn, vars, X, force, qval, C, nvars, nnodes>>
       /\ ret'.op \notin {"compliance", "evalObjCon"} => UNCHANGED <<Kvals, Kmat, LU, u>>]_state

\* a call other than compliance() has returned on a filled cache
C8_Witness ==
    /\ ret.op \in {"mass", "mass_grad", "getVarsAndBounds", "compliance_grad",
                   "evalObjConGradient"}
    /\ u # Absent

-----------------------------------------------------------------------------
(* C9 *)

-----------------------------------------------------------------------------
(* C10 *)

\* C10: as long as no compliance() call has succeeded, u does not exist, a
\* gradient call ends in an error without returning a gradient, and the
\* evaluator state is what the constructor and the failed calls left.
C10_NoGradientBeforeCompliance ==
    called.good = Absent =>
        /\ u = Absent /\ LU = Absent
        /\ ret.op \in GradientOps =>
               /\ ret.outcome = "raised" /\ ret.exc = "AttributeError" /\ ret.val = <<>>
               /\ IF called.x = Absent
                  THEN Kmat = Absent /\ \A k \in DOMAIN Kvals : Kvals[k] = Zero
                  ELSE /\ Kmat = Some(StiffnessOf(Value(called.x)))
                       /\ Kvals = StiffnessValuesOf(Value(called.x))

\* a gradient call on the freshly constructed problem, with a radius for
\* which compliance() could have succeeded
C10_Witness ==
    /\ called.x = Absent
    /\ ret.op = "evalObjConGradient"
    /\ r0 > 0

=============================================================================
